---------------------------- MODULE Spec2Model ----------------------------
(***************************************************************************)
(* Model of internal/infrastructure/project/disk_storage.go: the disk      *)
(* backed project store (DiskStorage), its per-project FilesIndex, the     *)
(* ttlcache holding the indexes, and the operations UpdateFiles,           *)
(* RemoveFiles, ListProjectFiles and the project.json writers.             *)
(*                                                                         *)
(* Strings that the code inspects character by character (paths, JSON      *)
(* keys) are sequences of one-character strings.  One project is modelled. *)
(***************************************************************************)
EXTENDS Integers, Sequences, FiniteSets, TLC

(***************************************************************************)
(* Bounds of the model.                                                    *)
(***************************************************************************)
MaxOps == 2
MaxClock == 2
MaxUpdates == 2
MaxRemoves == 1
MaxDirLen == 2
MaxPathLen == 3
MaxEntries == 2
MaxListOps == 5
MaxLoaderOps == 4

(***************************************************************************)
(* strings                                                                 *)
(***************************************************************************)
Separator == "/"

HasPrefix(s, prefix) ==
    /\ Len(s) >= Len(prefix)
    /\ SubSeq(s, 1, Len(prefix)) = prefix

HasSuffix(s, suffix) ==
    /\ Len(s) >= Len(suffix)
    /\ SubSeq(s, Len(s) - Len(suffix) + 1, Len(s)) = suffix

TrimSuffix(s, suffix) ==
    IF HasSuffix(s, suffix) THEN SubSeq(s, 1, Len(s) - Len(suffix)) ELSE s

ToLowerChar(c) ==
    CASE c = "I" -> "i"
      [] c = "G" -> "g"
      [] c = "P" -> "p"
      [] c = "K" -> "k"
      [] OTHER -> c

ToLower(s) == [i \in 1..Len(s) |-> ToLowerChar(s[i])]

(* filepath.Ext: the suffix beginning at the final dot of the final element *)
Ext(path) ==
    LET dots == {i \in 1..Len(path) :
                    /\ path[i] = "."
                    /\ \A j \in i..Len(path) : path[j] # Separator}
    IN  IF dots = {} THEN <<>>
        ELSE LET last == CHOOSE i \in dots : \A j \in dots : j <= i
             IN  SubSeq(path, last, Len(path))

(***************************************************************************)
(* FileInfo and FilesIndex.  An index is a function from the paths it      *)
(* holds to FileInfo records.                                              *)
(***************************************************************************)
FileInfo(hash, size, mtime) == [Hash |-> hash, Size |-> size, Mtime |-> mtime]

ZeroFileInfo == FileInfo("", 0, 0)

EmptyIndex == [p \in {} |-> ZeroFileInfo]

IndexGet(index, path) ==
    IF path \in DOMAIN index
    THEN [val |-> index[path], exists |-> TRUE]
    ELSE [val |-> ZeroFileInfo, exists |-> FALSE]

IndexSet(index, path, info) ==
    [p \in (DOMAIN index) \cup {path} |-> IF p = path THEN info ELSE index[p]]

IndexDelete(index, path) ==
    [p \in (DOMAIN index) \ {path} |-> index[p]]

(* a prefix built without the separator: dirPath itself *)
DirPrefixNoSeparator(dirPath) == dirPath

DirPrefix(dirPath) == TrimSuffix(dirPath, <<Separator>>) \o <<Separator>>

IndexDeleteDir(index, dirPath) ==
    [p \in {q \in DOMAIN index : ~HasPrefix(q, DirPrefix(dirPath))} |-> index[p]]

RECURSIVE SumSizes(_, _)
SumSizes(f, keys) ==
    IF keys = {} THEN 0
    ELSE LET k == CHOOSE k \in keys : TRUE
         IN  f[k] + SumSizes(f, keys \ {k})

(* a total that is not computed *)
TotalSizeZero(index) == 0

TotalSize(index) ==
    SumSizes([p \in DOMAIN index |-> index[p].Size], DOMAIN index)


(***************************************************************************)
(* Paths, file contents and checksums.                                     *)
(***************************************************************************)
PA == <<"a">>
PD == <<"d">>
PDX == <<"d", "/", "x">>
PDSlash == <<"d", "/">>

ContentPaths == {PA, PD, PDX}
RemovePaths == {PA, PD, PDX, PDSlash}

Bytes == {"c1", "c2"}

(* the content of a file whose reading fails *)
Unreadable == "eio"

ByteLen(b) == CASE b = "c1" -> 1 [] b = "c2" -> 2 [] OTHER -> 0

Sha1(b) == CASE b = "c1" -> "sha1-c1" [] b = "c2" -> "sha1-c2" [] OTHER -> "sha1-"

DBHash(b) == CASE b = "c1" -> "dbhash:c1" [] b = "c2" -> "dbhash:c2" [] OTHER -> "dbhash:"

GpkgExt == <<".", "g", "p", "k", "g">>

Checksum(path, b) ==
    IF ToLower(Ext(path)) = GpkgExt THEN DBHash(b) ELSE Sha1(b)

(***************************************************************************)
(* The project directory.  disk maps every content path to what is there:  *)
(* nothing, a directory or a regular file with its bytes and its           *)
(* modification time in seconds.                                           *)
(***************************************************************************)
NoEnt == [k |-> "none", c |-> "", m |-> 0]
DirEnt == [k |-> "dir", c |-> "", m |-> 0]
FileEnt(b, mtime) == [k |-> "file", c |-> b, m |-> mtime]

EmptyDisk == [p \in ContentPaths |-> NoEnt]

(* filepath.Join cleans the joined path: a trailing separator is dropped *)
Clean(path) == TrimSuffix(path, <<Separator>>)

Ancestors(path) ==
    {SubSeq(path, 1, i - 1) : i \in {j \in 2..Len(path) : path[j] = Separator}}

(* os.Lstat / os.Stat on the joined path *)
Lstat(d, path) ==
    LET p == Clean(path) IN
    IF p \in DOMAIN d /\ d[p].k # "none" THEN d[p].k
    ELSE IF \E a \in Ancestors(p) : a \in DOMAIN d /\ d[a].k = "file" THEN "ENOTDIR"
    ELSE "ENOENT"

(* os.MkdirAll(filepath.Dir(filename)) *)
MkdirAllFails(d, path) ==
    \E a \in Ancestors(path) : a \in DOMAIN d /\ d[a].k = "file"

MkdirAll(d, path) ==
    [p \in DOMAIN d |-> IF p \in Ancestors(path) THEN DirEnt ELSE d[p]]

(* os.RemoveAll *)
RemoveAll(d, path) ==
    LET p == Clean(path) IN
    [q \in DOMAIN d |->
        IF q = p \/ HasPrefix(q, p \o <<Separator>>) THEN NoEnt ELSE d[q]]

(* os.Remove of a regular file *)
Remove(d, path) ==
    LET p == Clean(path) IN
    [q \in DOMAIN d |-> IF q = p THEN NoEnt ELSE d[q]]

ControlDirPrefix == <<".", "g", "i", "s", "q", "u", "i", "c", "k", "/">>
WalExt == <<".", "g", "p", "k", "g", "-", "w", "a", "l">>
ShmExt == <<".", "g", "p", "k", "g", "-", "s", "h", "m">>

excludeExtRegex(relPath) ==
    \/ HasSuffix(ToLower(relPath), WalExt)
    \/ HasSuffix(ToLower(relPath), ShmExt)

createFilesMap(d) ==
    LET found == {p \in DOMAIN d :
                    /\ d[p].k = "file"
                    /\ ~HasPrefix(p, ControlDirPrefix)
                    /\ ~HasSuffix(p, <<"~">>)
                    /\ ~excludeExtRegex(p)}
    IN  [p \in found |-> FileInfo("", ByteLen(d[p].c), d[p].m)]

(***************************************************************************)
(* JSON.  A document is a value of one shape: t is its kind, s a string,   *)
(* n a number, f the members of an object.  "absent" stands for a file     *)
(* that does not exist and "invalid" for bytes that are no JSON document.  *)
(***************************************************************************)
JVal(t, s, n, f) == [t |-> t, s |-> s, n |-> n, f |-> f]
JString(s) == JVal("string", s, 0, <<>>)
JNumber(n) == JVal("number", "", n, <<>>)
JObject(f) == JVal("object", "", 0, f)
NoFile == JVal("absent", "", 0, <<>>)

KeyHash == <<"h", "a", "s", "h">>
KeySize == <<"s", "i", "z", "e">>
KeyMtime == <<"m", "t", "i", "m", "e">>
KeyIndex == <<"I", "n", "d", "e", "x">>

(* json.Encoder.Encode of a FileInfo, of a map[string]FileInfo, and of a   *)
(* *FilesIndex (a struct whose one exported field is Index)                *)
MarshalFileInfo(info) ==
    JObject([k \in {KeyHash, KeySize, KeyMtime} |->
                CASE k = KeyHash -> JString(info.Hash)
                  [] k = KeySize -> JNumber(info.Size)
                  [] OTHER -> JNumber(info.Mtime)])

MarshalMap(index) ==
    JObject([p \in DOMAIN index |-> MarshalFileInfo(index[p])])

MarshalFilesIndex(index) ==
    JObject([k \in {KeyIndex} |-> MarshalMap(index)])

(* json.Decoder.Decode into a FileInfo: members are matched to the struct  *)
(* fields by name ignoring case, other members are skipped, and a member   *)
(* of the wrong JSON kind is an UnmarshalTypeError                         *)
MemberOf(v, field) ==
    LET ks == {k \in DOMAIN v.f : ToLower(k) = field}
    IN  IF ks = {} THEN JVal("null", "", 0, <<>>)
        ELSE IF field \in ks THEN v.f[field]
        ELSE v.f[CHOOSE k \in ks : TRUE]

UnmarshalFileInfo(v) ==
    IF v.t = "null" THEN [val |-> ZeroFileInfo, err |-> FALSE]
    ELSE IF v.t # "object" THEN [val |-> ZeroFileInfo, err |-> TRUE]
    ELSE LET h == MemberOf(v, KeyHash)
             s == MemberOf(v, KeySize)
             m == MemberOf(v, KeyMtime)
         IN  [val |-> FileInfo(IF h.t = "string" THEN h.s ELSE "",
                               IF s.t = "number" THEN s.n ELSE 0,
                               IF m.t = "number" THEN m.n ELSE 0),
              err |-> \/ h.t \notin {"string", "null"}
                      \/ s.t \notin {"number", "null"}
                      \/ m.t \notin {"number", "null"}]

UnmarshalMap(v) ==
    IF v.t # "object" THEN [val |-> EmptyIndex, err |-> TRUE]
    ELSE [val |-> [k \in DOMAIN v.f |-> UnmarshalFileInfo(v.f[k]).val],
          err |-> \E k \in DOMAIN v.f : UnmarshalFileInfo(v.f[k]).err]

(* loadFilesIndex: a missing file is an empty index and no error *)
loadFilesIndex(file) ==
    IF file.t = "absent" THEN [index |-> EmptyIndex, err |-> FALSE]
    ELSE LET r == UnmarshalMap(file)
         IN  IF r.err THEN [index |-> EmptyIndex, err |-> TRUE]
             ELSE [index |-> r.val, err |-> FALSE]

(***************************************************************************)
(* Program state.                                                          *)
(*   projectJson  .gisquick/project.json (domain.ProjectInfo)              *)
(*   disk         the project's content files and directories              *)
(*   filesmap     .gisquick/filesmap.json, the index snapshot              *)
(*   heap         the FilesIndex instances the pointers refer to          *)
(*   indexCache   the ttlcache item of the project                         *)
(*   clock        time in seconds                                          *)
(*   th           per request goroutine: position, arguments, locals and   *)
(*                the values returned                                      *)
(*   budget       number of requests that may still be started             *)
(*   saved        the index content handed to the last snapshot write      *)
(***************************************************************************)
VARIABLES projectJson, disk, filesmap, heap, indexCache, clock, th, budget, saved

vars == <<projectJson, disk, filesmap, heap, indexCache, clock, th, budget, saved>>

Threads == {1, 2}
InstIds == 1..(Cardinality(Threads) + 1)

MaxProjectSize == 1
TTL == 1

ProjectInfo(state, size, thumbnail) ==
    [State |-> state, Size |-> size, Thumbnail |-> thumbnail]
ZeroProjectInfo == ProjectInfo("", 0, FALSE)
NoProjectJson == [exists |-> FALSE, info |-> ZeroProjectInfo]

NoItem == [has |-> FALSE, inst |-> 0, expiresAt |-> 0]

NoInfo == [Updates |-> <<>>, Removes |-> <<>>]

(* what one call of next() yields: an error, or a path and a reader whose  *)
(* bytes are read in full or break off with a read error                   *)
Upload(err, path, bytes, readErr) ==
    [err |-> err, path |-> path, bytes |-> bytes, readErr |-> readErr]
NoUpload == Upload(FALSE, <<>>, "", FALSE)
NilFiles == [nil |-> TRUE, list |-> EmptyIndex]
Files(index) == [nil |-> FALSE, list |-> index]
Ret(err, line, files) == [err |-> err, line |-> line, files |-> files]
NoRet == Ret("", 0, NilFiles)

Idle ==
    [pc |-> "idle", op |-> "", info |-> NoInfo, checksum |-> FALSE, i |-> 0,
     project |-> ZeroProjectInfo, index |-> 0, filesMap |-> EmptyIndex,
     files |-> EmptyIndex, indexUpdated |-> FALSE, pre |-> EmptyIndex,
     hashed |-> {}, up |-> NoUpload, ret |-> NoRet]

NoSaved == [by |-> "", index |-> EmptyIndex]

Init ==
    /\ projectJson = NoProjectJson
    /\ disk = EmptyDisk
    /\ filesmap = NoFile
    /\ heap = [i \in InstIds |-> EmptyIndex]
    /\ indexCache = NoItem
    /\ clock = 0
    /\ th = [t \in Threads |-> Idle]
    /\ budget = MaxOps
    /\ saved = NoSaved

(***************************************************************************)
(* FilesIndex instances.  An instance lives while the cache item or a      *)
(* request holds a pointer to it; a dead instance is reset.                *)
(***************************************************************************)
Referenced(c, threads) ==
    (IF c.has THEN {c.inst} ELSE {}) \cup
    {threads[t].index : t \in {u \in Threads : threads[u].index # 0}}

Collect(h, c, threads) ==
    [i \in InstIds |-> IF i \in Referenced(c, threads) THEN h[i] ELSE EmptyIndex]

NewInst(c, threads) ==
    CHOOSE i \in InstIds :
        /\ i \notin Referenced(c, threads)
        /\ \A j \in InstIds : j \notin Referenced(c, threads) => i <= j

(***************************************************************************)
(* The index cache: ttlcache with a loader, a fixed TTL and no touch on    *)
(* hit.  An item is expired once the clock has passed expiresAt.           *)
(***************************************************************************)
IsExpired(item, now) == now > item.expiresAt

(* the files map of the loader's rebuild, each file with its checksum *)
RebuildIndex(d) ==
    LET files == createFilesMap(d)
    IN  [p \in DOMAIN files |->
            FileInfo(Checksum(p, d[p].c), files[p].Size, files[p].Mtime)]

(* a cache without WithDisableTouchOnHit: a hit restarts the item's TTL *)
ExpiresAtTouched(item, now) == now + TTL

(* line 174, WithDisableTouchOnHit: a hit leaves the expiry of the item *)
ExpiresAtOnHit(item, now) == item.expiresAt

(* ttlcache.LoaderFunc of NewDiskStorage: the index data of a new item *)
LoaderIndexData(file, d) ==
    LET r == loadFilesIndex(file)
    IN  IF r.err THEN RebuildIndex(d) ELSE r.index

(* Checksum(absPath) returns an error: the file is gone or cannot be read *)
ChecksumFails(d, path) == d[path].k # "file" \/ d[path].c = Unreadable

(* lines 141-158: the loader returns nil, the snapshot cannot be parsed    *)
(* and a checksum of the rebuild fails                                     *)
LoaderFails(file, d) ==
    /\ loadFilesIndex(file).err
    /\ \E p \in DOMAIN createFilesMap(d) : ChecksumFails(d, p)

(* indexCache.Get(projectName) by request t: the item's value, loading a   *)
(* new item when there is none or it is expired; ok is false when the      *)
(* loader returns nil, and filesIndex then returns a nil index and an      *)
(* error                                                                   *)
CacheGet(t) ==
    IF indexCache.has /\ ~IsExpired(indexCache, clock)
    THEN [ok |-> TRUE, heap |-> heap,
          cache |-> [indexCache EXCEPT !.expiresAt = ExpiresAtOnHit(indexCache, clock)],
          inst |-> indexCache.inst]
    ELSE IF LoaderFails(filesmap, disk)
    THEN [ok |-> FALSE, heap |-> heap, cache |-> indexCache, inst |-> 0]
    ELSE LET others == [u \in Threads |-> IF u = t THEN Idle ELSE th[u]]
             id == NewInst(NoItem, others)
         IN  [ok |-> TRUE,
              heap |-> [heap EXCEPT ![id] = LoaderIndexData(filesmap, disk)],
              cache |-> [has |-> TRUE, inst |-> id, expiresAt |-> clock + TTL],
              inst |-> id]

(***************************************************************************)
(* Inputs of the requests.                                                 *)
(***************************************************************************)
DeclaredFiles == {[Path |-> p, Size |-> n] : p \in ContentPaths, n \in 1..2}

SeqsUpTo(S, n) == UNION {[1..k -> S] : k \in 0..n}

FilesChanges ==
    {[Updates |-> u, Removes |-> r] :
        u \in SeqsUpTo(DeclaredFiles, MaxUpdates), r \in SeqsUpTo(RemovePaths, MaxRemoves)}

Uploads ==
    {Upload(TRUE, <<>>, "", FALSE)} \cup
    {Upload(FALSE, p, b, e) : p \in ContentPaths, b \in Bytes, e \in BOOLEAN}

(***************************************************************************)
(* Request bookkeeping.                                                    *)
(***************************************************************************)
Return(cur, err, line, files) ==
    [cur EXCEPT !.pc = "done", !.ret = Ret(err, line, files)]

(* request t moves to newTh; the cache item and the instances become c, h *)
Step(t, newTh, h, c) ==
    /\ th' = [th EXCEPT ![t] = newTh]
    /\ indexCache' = c
    /\ heap' = Collect(h, c, [th EXCEPT ![t] = newTh])

Begin(t) ==
    /\ th[t].pc = "idle"
    /\ budget > 0
    /\ budget' = budget - 1

(* the caller has the returned values; the goroutine ends *)
Finish(t) ==
    /\ th[t].pc = "done"
    /\ Step(t, Idle, heap, indexCache)
    /\ UNCHANGED <<projectJson, disk, filesmap, clock, budget, saved>>

Tick ==
    /\ clock < MaxClock
    /\ clock' = clock + 1
    /\ UNCHANGED <<projectJson, disk, filesmap, heap, indexCache, th, budget, saved>>

(***************************************************************************)
(* Create                                                                  *)
(***************************************************************************)
Create(t, validMeta) ==
    /\ th[t].pc = "idle"
    /\ LET cur == [th[t] EXCEPT !.op = "Create"] IN
       IF projectJson.exists
       THEN /\ Step(t, Return(cur, "ErrProjectAlreadyExists", 215, NilFiles), heap, indexCache)
            /\ UNCHANGED projectJson
       ELSE IF ~validMeta
       THEN /\ Step(t, Return(cur, "ErrInvalidQgisMeta", 224, NilFiles), heap, indexCache)
            /\ UNCHANGED projectJson
       ELSE /\ Step(t, Return(cur, "", 238, NilFiles), heap, indexCache)
            /\ projectJson' = [exists |-> TRUE, info |-> ProjectInfo("empty", 0, FALSE)]
    /\ UNCHANGED <<disk, filesmap, clock, budget, saved>>

(***************************************************************************)
(* Delete, lines 455-462: os.RemoveAll of the project directory, with its  *)
(* .gisquick directory; the index cache is not touched                     *)
(***************************************************************************)
Delete(t) ==
    /\ Begin(t)
    /\ projectJson' = NoProjectJson
    /\ disk' = EmptyDisk
    /\ filesmap' = NoFile
    /\ Step(t, Return([th[t] EXCEPT !.op = "Delete"], "", 461, NilFiles), heap, indexCache)
    /\ UNCHANGED <<clock, saved>>

(***************************************************************************)
(* UpdateFiles                                                             *)
(***************************************************************************)
RECURSIVE LastSize(_, _)
LastSize(updates, path) ==
    LET n == Len(updates) IN
    IF n = 0 THEN 0
    ELSE IF updates[n].Path = path THEN updates[n].Size
    ELSE LastSize(SubSeq(updates, 1, n - 1), path)

Range(seq) == {seq[i] : i \in 1..Len(seq)}

(* a projection that leaves the removes out *)
calcNewSizeUpdatesOnly(index, info) ==
    LET updated == {f.Path : f \in Range(info.Updates)}
        sizeMap == [p \in (DOMAIN index) \cup updated |->
                       IF p \in updated THEN LastSize(info.Updates, p)
                       ELSE index[p].Size]
    IN  SumSizes(sizeMap, DOMAIN sizeMap)

calcNewSize(index, info) ==
    LET updated == {f.Path : f \in Range(info.Updates)}
        kept == (DOMAIN index) \ Range(info.Removes)
        sizeMap == [p \in kept \cup updated |->
                       IF p \in updated THEN LastSize(info.Updates, p)
                       ELSE index[p].Size]
    IN  SumSizes(sizeMap, DOMAIN sizeMap)

(* no size limit *)
QuotaNeverExceeded(info, expectedSize) == FALSE

(* the size limit applied to batches without updates as well *)
QuotaExceededAnyBatch(info, expectedSize) ==
    MaxProjectSize > 0 /\ expectedSize > MaxProjectSize

QuotaExceeded(info, expectedSize) ==
    Len(info.Updates) > 0 /\ MaxProjectSize > 0 /\ expectedSize > MaxProjectSize

AfterUpdates(info) ==
    IF Len(info.Removes) > 0 THEN "uf_remove" ELSE "uf_persist"

UpdateFilesBegin(t, info, hasNext) ==
    /\ Begin(t)
    /\ LET cur == [th[t] EXCEPT !.op = "UpdateFiles", !.info = info] IN
       IF ~projectJson.exists
       THEN Step(t, Return(cur, "ErrProjectNotExists", 734, NilFiles), heap, indexCache)
       ELSE LET g == CacheGet(t)
                loaded == [cur EXCEPT !.project = projectJson.info,
                                      !.index = g.inst,
                                      !.pre = g.heap[g.inst]]
                expectedSize == calcNewSize(g.heap[g.inst], info)
            IN  IF ~g.ok
                THEN Step(t, Return(cur, "loading project files index", 738, NilFiles),
                          heap, indexCache)
                ELSE IF QuotaExceeded(info, expectedSize)
                THEN Step(t, Return(loaded, "ErrProjectSize", 742, NilFiles), g.heap, g.cache)
                ELSE IF Len(info.Updates) > 0 /\ ~hasNext
                THEN Step(t, Return(loaded, "required function for reading uploaded files",
                                    760, NilFiles), g.heap, g.cache)
                ELSE Step(t, [loaded EXCEPT
                                !.i = 1,
                                !.pc = IF Len(info.Updates) > 0 THEN "uf_update"
                                       ELSE AfterUpdates(info)],
                          g.heap, g.cache)
    /\ UNCHANGED <<projectJson, disk, filesmap, clock, saved>>

(* saveToFile2: the directory is made, the file created, the bytes copied; *)
(* a failed copy removes the file                                          *)
saveToFile2(d, path, up, now) ==
    IF MkdirAllFails(d, path) THEN [disk |-> d, err |-> TRUE, h |-> ""]
    ELSE IF Lstat(d, path) = "dir"
    THEN [disk |-> MkdirAll(d, path), err |-> TRUE, h |-> ""]
    ELSE IF up.readErr
    THEN [disk |-> Remove(MkdirAll(d, path), path), err |-> TRUE, h |-> ""]
    ELSE [disk |-> [MkdirAll(d, path) EXCEPT ![path] = FileEnt(up.bytes, now)],
          err |-> FALSE, h |-> Sha1(up.bytes)]

(* one pass of the loop of lines 762-792 with the index.Set moved before  *)
(* the checks of the pulled path and of the size                           *)
UpdateFilesUpdateOneSetFirst(d, index, declaredInfo, up, now) ==
    LET path == up.path
        w == saveToFile2(d, path, up, now)
        set == IndexSet(index, path, FileInfo(w.h, declaredInfo.Size, now))
    IN  IF up.err
        THEN [disk |-> d, index |-> index, ok |-> FALSE,
              err |-> "reading upload files stream", line |-> 765]
        ELSE IF declaredInfo.Path # path
        THEN [disk |-> d, index |-> set, ok |-> FALSE, err |-> "", line |-> 769]
        ELSE IF w.err
        THEN [disk |-> w.disk, index |-> index, ok |-> FALSE,
              err |-> "saving file", line |-> 778]
        ELSE IF declaredInfo.Size # ByteLen(w.disk[path].c)
        THEN [disk |-> w.disk, index |-> set, ok |-> FALSE,
              err |-> "declared file info doesn't match", line |-> 788]
        ELSE [disk |-> w.disk, index |-> set, ok |-> TRUE, err |-> "", line |-> 790]

(* one pass of the loop of lines 762-792 without the comparison of the     *)
(* declared size and the size of the written file                          *)
UpdateFilesUpdateOneNoSizeCheck(d, index, declaredInfo, up, now) ==
    LET path == up.path
        w == saveToFile2(d, path, up, now)
    IN  IF up.err
        THEN [disk |-> d, index |-> index, ok |-> FALSE,
              err |-> "reading upload files stream", line |-> 765]
        ELSE IF declaredInfo.Path # path
        THEN [disk |-> d, index |-> index, ok |-> FALSE, err |-> "", line |-> 769]
        ELSE IF w.err
        THEN [disk |-> w.disk, index |-> index, ok |-> FALSE,
              err |-> "saving file", line |-> 778]
        ELSE [disk |-> w.disk,
              index |-> IndexSet(index, path,
                                 FileInfo(w.h, declaredInfo.Size, w.disk[path].m)),
              ok |-> TRUE, err |-> "", line |-> 790]

(* one pass of the loop of lines 762-792: the upload up is pulled for the  *)
(* declared file                                                           *)
UpdateFilesUpdateOne(d, index, declaredInfo, up, now) ==
    LET path == up.path
        w == saveToFile2(d, path, up, now)
    IN  IF up.err
        THEN [disk |-> d, index |-> index, ok |-> FALSE,
              err |-> "reading upload files stream", line |-> 765]
        ELSE IF declaredInfo.Path # path
        THEN [disk |-> d, index |-> index, ok |-> FALSE, err |-> "", line |-> 769]
        ELSE IF w.err
        THEN [disk |-> w.disk, index |-> index, ok |-> FALSE,
              err |-> "saving file", line |-> 778]
        ELSE IF declaredInfo.Size # ByteLen(w.disk[path].c)
        THEN [disk |-> w.disk, index |-> index, ok |-> FALSE,
              err |-> "declared file info doesn't match", line |-> 788]
        ELSE [disk |-> w.disk,
              index |-> IndexSet(index, path,
                                 FileInfo(w.h, declaredInfo.Size, w.disk[path].m)),
              ok |-> TRUE, err |-> "", line |-> 790]

UpdateFilesUpdate(t, up) ==
    /\ th[t].pc = "uf_update"
    /\ LET cur == [th[t] EXCEPT !.up = up]
           r == UpdateFilesUpdateOne(disk, heap[cur.index], cur.info.Updates[cur.i],
                                     up, clock)
           last == cur.i = Len(cur.info.Updates)
       IN  /\ disk' = r.disk
           /\ IF ~r.ok
              THEN Step(t, Return(cur, r.err, r.line, NilFiles),
                        [heap EXCEPT ![cur.index] = r.index], indexCache)
              ELSE Step(t, [cur EXCEPT !.up = NoUpload,
                                       !.i = IF last THEN 1 ELSE cur.i + 1,
                                       !.pc = IF last THEN AfterUpdates(cur.info)
                                              ELSE "uf_update"],
                        [heap EXCEPT ![cur.index] = r.index], indexCache)
    /\ UNCHANGED <<projectJson, filesmap, clock, budget, saved>>

(* one pass of the removal loop of UpdateFiles, lines 793-814 *)
UpdateFilesRemoveOne(d, index, path) ==
    LET info == Lstat(d, path) IN
    IF info = "ENOENT"
    THEN [disk |-> d, index |-> IndexDelete(index, path), err |-> "", line |-> 799]
    ELSE IF info = "ENOTDIR"
    THEN [disk |-> d, index |-> index, err |-> "removing file/directory", line |-> 801]
    ELSE IF info = "dir"
    THEN [disk |-> RemoveAll(d, path), index |-> IndexDeleteDir(index, path),
          err |-> "", line |-> 807]
    ELSE [disk |-> Remove(d, path), index |-> IndexDelete(index, path),
          err |-> "", line |-> 812]

UpdateFilesRemove(t) ==
    /\ th[t].pc = "uf_remove"
    /\ LET cur == th[t]
           r == UpdateFilesRemoveOne(disk, heap[cur.index], cur.info.Removes[cur.i])
           last == cur.i = Len(cur.info.Removes)
       IN  /\ disk' = r.disk
           /\ IF r.err # ""
              THEN Step(t, Return(cur, r.err, r.line, NilFiles), heap, indexCache)
              ELSE Step(t, [cur EXCEPT !.i = IF last THEN 1 ELSE cur.i + 1,
                                       !.pc = IF last THEN "uf_persist" ELSE "uf_remove"],
                        [heap EXCEPT ![cur.index] = r.index], indexCache)
    /\ UNCHANGED <<projectJson, filesmap, clock, budget, saved>>

(* line 815: saveJsonFile(..., index) encodes the *FilesIndex itself *)
UpdateFilesSnapshot(index) == MarshalFilesIndex(index)

UpdateFilesPersist(t) ==
    /\ th[t].pc = "uf_persist"
    /\ filesmap' = UpdateFilesSnapshot(heap[th[t].index])
    /\ saved' = [by |-> "UpdateFiles", index |-> heap[th[t].index]]
    /\ Step(t, [th[t] EXCEPT !.pc = "uf_meta"], heap, indexCache)
    /\ UNCHANGED <<projectJson, disk, clock, budget>>

UpdateFilesState(state, info) ==
    IF state = "empty" THEN "staged" ELSE state

UpdateFilesMeta(t) ==
    /\ th[t].pc = "uf_meta"
    /\ LET cur == th[t]
           size == TotalSize(heap[cur.index])
           project == [cur.project EXCEPT
                          !.Size = size,
                          !.State = UpdateFilesState(cur.project.State, cur.info)]
       IN  /\ projectJson' = [exists |-> TRUE, info |-> project]
           /\ Step(t, Return([cur EXCEPT !.project = project], "", 828,
                             Files(heap[cur.index])),
                   heap, indexCache)
    /\ UNCHANGED <<disk, filesmap, clock, budget, saved>>

(***************************************************************************)
(* RemoveFiles                                                             *)
(***************************************************************************)
RemoveFilesBegin(t, files) ==
    /\ Begin(t)
    /\ LET cur == [th[t] EXCEPT !.op = "RemoveFiles",
                                !.info = [Updates |-> <<>>, Removes |-> files]] IN
       IF ~projectJson.exists
       THEN Step(t, Return(cur, "ErrProjectNotExists", 834, NilFiles), heap, indexCache)
       ELSE LET g == CacheGet(t) IN
            IF ~g.ok
            THEN Step(t, Return(cur, "loading project files index", 838, NilFiles),
                      heap, indexCache)
            ELSE Step(t, [cur EXCEPT !.project = projectJson.info,
                                     !.index = g.inst,
                                     !.pre = g.heap[g.inst],
                                     !.i = 1,
                                     !.pc = IF Len(files) > 0 THEN "rf_remove"
                                            ELSE "rf_persist"],
                      g.heap, g.cache)
    /\ UNCHANGED <<projectJson, disk, filesmap, clock, saved>>

(* one pass of the loop of RemoveFiles, lines 840-857 *)
RemoveFilesRemoveOne(d, index, path) ==
    LET info == Lstat(d, path) IN
    IF info \in {"ENOENT", "ENOTDIR"}
    THEN [disk |-> d, index |-> index, err |-> "removing file/directory", line |-> 844]
    ELSE IF info = "dir"
    THEN [disk |-> RemoveAll(d, path), index |-> IndexDeleteDir(index, path),
          err |-> "", line |-> 850]
    ELSE [disk |-> Remove(d, path), index |-> IndexDelete(index, path),
          err |-> "", line |-> 855]

RemoveFilesRemove(t) ==
    /\ th[t].pc = "rf_remove"
    /\ LET cur == th[t]
           r == RemoveFilesRemoveOne(disk, heap[cur.index], cur.info.Removes[cur.i])
           last == cur.i = Len(cur.info.Removes)
       IN  /\ disk' = r.disk
           /\ IF r.err # ""
              THEN Step(t, Return(cur, r.err, r.line, NilFiles), heap, indexCache)
              ELSE Step(t, [cur EXCEPT !.i = IF last THEN 1 ELSE cur.i + 1,
                                       !.pc = IF last THEN "rf_persist" ELSE "rf_remove"],
                        [heap EXCEPT ![cur.index] = r.index], indexCache)
    /\ UNCHANGED <<projectJson, filesmap, clock, budget, saved>>

(* line 858: saveJsonFile(..., index) encodes the *FilesIndex itself *)
RemoveFilesSnapshot(index) == MarshalFilesIndex(index)

RemoveFilesPersist(t) ==
    /\ th[t].pc = "rf_persist"
    /\ filesmap' = RemoveFilesSnapshot(heap[th[t].index])
    /\ saved' = [by |-> "RemoveFiles", index |-> heap[th[t].index]]
    /\ Step(t, [th[t] EXCEPT !.pc = "rf_meta"], heap, indexCache)
    /\ UNCHANGED <<projectJson, disk, clock, budget>>

RemoveFilesMeta(t) ==
    /\ th[t].pc = "rf_meta"
    /\ LET cur == th[t]
           project == [cur.project EXCEPT !.Size = TotalSize(heap[cur.index])]
       IN  /\ projectJson' = [exists |-> TRUE, info |-> project]
           /\ Step(t, Return([cur EXCEPT !.project = project], "", 866,
                             Files(heap[cur.index])),
                   heap, indexCache)
    /\ UNCHANGED <<disk, filesmap, clock, budget, saved>>

(***************************************************************************)
(* The cache's expiry sweep and the OnEviction handler, lines 178-185.     *)
(***************************************************************************)
EvictionSnapshot(index) == MarshalMap(index)

(* ttlcache.EvictionReason of an expired item and of a deleted one *)
EvictionReasonExpired == "EvictionReasonExpired"
EvictionReasonDeleted == "EvictionReasonDeleted"

(* a handler that saves the index of expired items only *)
OnEvictionSavesExpired(er) == er = EvictionReasonExpired

(* the handler of lines 178-185 saves the index without a look at er *)
OnEvictionSaves(er) == TRUE

(* the cache item is evicted for reason er and the handler runs *)
OnEviction(er) ==
    /\ IF OnEvictionSaves(er)
       THEN /\ filesmap' = EvictionSnapshot(heap[indexCache.inst])
            /\ saved' = [by |-> "OnEviction", index |-> heap[indexCache.inst]]
       ELSE UNCHANGED <<filesmap, saved>>
    /\ indexCache' = NoItem
    /\ heap' = Collect(heap, NoItem, th)

Evict ==
    /\ indexCache.has
    /\ IsExpired(indexCache, clock)
    /\ OnEviction(EvictionReasonExpired)
    /\ UNCHANGED <<projectJson, disk, clock, th, budget>>

(* Close, lines 960-963: the sweep is stopped and DeleteAll evicts the     *)
(* item; the program is shutting down and starts no further request        *)
Close ==
    /\ indexCache.has
    /\ budget' = 0
    /\ OnEviction(EvictionReasonDeleted)
    /\ UNCHANGED <<projectJson, disk, clock, th>>

(***************************************************************************)
(* ListProjectFiles                                                        *)
(***************************************************************************)
(* lines 399-403 log the error of filesIndex and go on with the nil index: *)
(* index.Get at line 414, or index.Index at line 435, dereferences it and  *)
(* the goroutine panics; no value is returned                              *)
NilPointerPanic == "panic: nil pointer dereference"

ListProjectFilesBegin(t, checksum) ==
    /\ Begin(t)
    /\ LET cur == [th[t] EXCEPT !.op = "ListProjectFiles", !.checksum = checksum] IN
       IF ~projectJson.exists
       THEN Step(t, Return(cur, "ErrProjectNotExists", 393, NilFiles), heap, indexCache)
       ELSE LET g == CacheGet(t)
                filesMap == createFilesMap(disk)
            IN  IF ~g.ok
                THEN Step(t, Return([cur EXCEPT !.filesMap = filesMap], NilPointerPanic,
                                    IF checksum /\ filesMap # EmptyIndex THEN 414 ELSE 435,
                                    NilFiles),
                          heap, indexCache)
                ELSE Step(t, [cur EXCEPT !.filesMap = filesMap,
                                         !.index = g.inst,
                                         !.pre = g.heap[g.inst],
                                         !.pc = "lpf_files"],
                          g.heap, g.cache)
    /\ UNCHANGED <<projectJson, disk, filesmap, clock, saved>>

(* a cache hit for every file that has an entry *)
CacheHitAnyEntry(cachedInfo, hasCachedInfo, info) == hasCachedInfo

(* a cache hit decided by the size in place of the modification time *)
CacheHitSameSize(cachedInfo, hasCachedInfo, info) ==
    hasCachedInfo /\ cachedInfo.Size = info.Size

(* line 415: the cached checksum is used *)
CacheHit(cachedInfo, hasCachedInfo, info) ==
    hasCachedInfo /\ cachedInfo.Mtime = info.Mtime

(* the loop of lines 407-432 *)
ListProjectFilesFiles(t) ==
    /\ th[t].pc = "lpf_files"
    /\ LET cur == th[t]
           index == heap[cur.index]
           hits == {p \in DOMAIN cur.filesMap :
                       CacheHit(IndexGet(index, p).val, IndexGet(index, p).exists,
                                cur.filesMap[p])}
           misses == IF cur.checksum THEN (DOMAIN cur.filesMap) \ hits ELSE {}
           files == [p \in DOMAIN cur.filesMap |->
                        FileInfo(IF ~cur.checksum THEN ""
                                 ELSE IF p \in hits THEN index[p].Hash
                                 ELSE Checksum(p, disk[p].c),
                                 cur.filesMap[p].Size, cur.filesMap[p].Mtime)]
           newIndex == [p \in (DOMAIN index) \cup misses |->
                           IF p \in misses THEN files[p] ELSE index[p]]
           readable == {p \in misses : ~ChecksumFails(disk, p)}
       IN  IF readable # misses
           THEN \E before \in SUBSET readable, failed \in misses \ readable :
                    Step(t, Return([cur EXCEPT !.hashed = before \cup {failed}],
                                   "computing checksum", 421, NilFiles),
                         [heap EXCEPT ![cur.index] =
                             [p \in (DOMAIN index) \cup before |->
                                 IF p \in before THEN files[p] ELSE index[p]]],
                         indexCache)
           ELSE Step(t, [cur EXCEPT !.files = files,
                                    !.hashed = misses,
                                    !.indexUpdated = misses # {},
                                    !.pc = "lpf_clean"],
                     [heap EXCEPT ![cur.index] = newIndex], indexCache)
    /\ UNCHANGED <<projectJson, disk, filesmap, clock, budget, saved>>

(* no index entry is taken for one of a file that is gone *)
NoTombstones(index, filesMap) == {}

(* line 436: the index entries whose path the scan did not find *)
Tombstones(index, filesMap) == (DOMAIN index) \ (DOMAIN filesMap)

(* the loop of lines 435-441 *)
ListProjectFilesClean(t) ==
    /\ th[t].pc = "lpf_clean"
    /\ LET cur == th[t]
           index == heap[cur.index]
           gone == Tombstones(index, cur.filesMap)
       IN  Step(t, [cur EXCEPT !.indexUpdated = cur.indexUpdated \/ gone # {},
                               !.pc = "lpf_meta"],
                [heap EXCEPT ![cur.index] = [p \in (DOMAIN index) \ gone |-> index[p]]],
                indexCache)
    /\ UNCHANGED <<projectJson, disk, filesmap, clock, budget, saved>>

(* lines 442-447: GetProjectInfo and index.TotalSize when the index was   *)
(* changed                                                                 *)
ListProjectFilesMeta(t) ==
    /\ th[t].pc = "lpf_meta"
    /\ LET cur == th[t] IN
       IF cur.indexUpdated
       THEN Step(t, [cur EXCEPT !.project = [projectJson.info EXCEPT
                                                !.Size = TotalSize(heap[cur.index])],
                                !.pc = "lpf_write"],
                 heap, indexCache)
       ELSE Step(t, Return(cur, "", 452, Files(cur.files)), heap, indexCache)
    /\ UNCHANGED <<projectJson, disk, filesmap, clock, budget, saved>>

(* lines 448-452: saveConfigFile of project.json *)
ListProjectFilesWrite(t) ==
    /\ th[t].pc = "lpf_write"
    /\ projectJson' = [exists |-> TRUE, info |-> th[t].project]
    /\ Step(t, Return(th[t], "", 452, Files(th[t].files)), heap, indexCache)
    /\ UNCHANGED <<disk, filesmap, clock, budget, saved>>

(***************************************************************************)
(* The writers of project.json besides the file operations: each reads the *)
(* record, changes its copy and writes the copy back.                      *)
(***************************************************************************)
ReadProject(t, op, line, validInput, badLine, badErr, pc) ==
    /\ Begin(t)
    /\ LET cur == [th[t] EXCEPT !.op = op] IN
       IF ~projectJson.exists
       THEN Step(t, Return(cur, "ErrProjectNotExists", line, NilFiles), heap, indexCache)
       ELSE IF ~validInput
       THEN Step(t, Return(cur, badErr, badLine, NilFiles), heap, indexCache)
       ELSE Step(t, [cur EXCEPT !.project = projectJson.info, !.pc = pc], heap, indexCache)
    /\ UNCHANGED <<projectJson, disk, filesmap, clock, saved>>

WriteProject(t, pc, project, line) ==
    /\ th[t].pc = pc
    /\ projectJson' = [exists |-> TRUE, info |-> project]
    /\ Step(t, Return([th[t] EXCEPT !.project = project], "", line, NilFiles),
            heap, indexCache)
    /\ UNCHANGED <<disk, filesmap, clock, budget, saved>>

UpdateSettingsBegin(t, validData) ==
    ReadProject(t, "UpdateSettings", 879, validData, 883,
                "extracting authentication settings", "us_write")

UpdateSettingsWrite(t) ==
    WriteProject(t, "us_write", [th[t].project EXCEPT !.State = "published"], 895)

UpdateMetaBegin(t, validMeta) ==
    ReadProject(t, "UpdateMeta", 923, validMeta, 928, "ErrInvalidQgisMeta", "um_write")

UpdateMetaWrite(t) ==
    WriteProject(t, "um_write", th[t].project, 939)

SaveThumbnailBegin(t) ==
    ReadProject(t, "SaveThumbnail", 612, TRUE, 615, "saving thumbnail file", "st_write")

SaveThumbnailWrite(t) ==
    WriteProject(t, "st_write", [th[t].project EXCEPT !.Thumbnail = TRUE], 622)

(***************************************************************************)
(* Files written and removed in the project directory by other programs.   *)
(***************************************************************************)
ExternalWrite(path, bytes) ==
    /\ budget > 0
    /\ budget' = budget - 1
    /\ projectJson.exists
    /\ ~MkdirAllFails(disk, path)
    /\ Lstat(disk, path) # "dir"
    /\ disk' = [MkdirAll(disk, path) EXCEPT ![path] = FileEnt(bytes, clock)]
    /\ UNCHANGED <<projectJson, filesmap, heap, indexCache, clock, th, saved>>

(* filesmap.json left with bytes that are no JSON document, as by a write  *)
(* that broke off after os.Create truncated the file                       *)
InvalidFile == JVal("invalid", "", 0, <<>>)

ExternalCorrupt ==
    /\ budget > 0
    /\ budget' = budget - 1
    /\ projectJson.exists
    /\ filesmap # InvalidFile
    /\ filesmap' = InvalidFile
    /\ UNCHANGED <<projectJson, disk, heap, indexCache, clock, th, saved>>

ExternalRemove(path) ==
    /\ budget > 0
    /\ budget' = budget - 1
    /\ Lstat(disk, path) = "file"
    /\ disk' = Remove(disk, path)
    /\ UNCHANGED <<projectJson, filesmap, heap, indexCache, clock, th, saved>>

(***************************************************************************)
(* Spec: requests served one at a time by one goroutine.                   *)
(***************************************************************************)
Requests(t, changes) ==
    \/ \E v \in BOOLEAN : Create(t, v)
    \/ \E info \in changes, hasNext \in BOOLEAN : UpdateFilesBegin(t, info, hasNext)
    \/ \E up \in Uploads : UpdateFilesUpdate(t, up)
    \/ UpdateFilesRemove(t)
    \/ UpdateFilesPersist(t)
    \/ UpdateFilesMeta(t)
    \/ \E files \in {c.Removes : c \in changes} : RemoveFilesBegin(t, files)
    \/ RemoveFilesRemove(t)
    \/ RemoveFilesPersist(t)
    \/ RemoveFilesMeta(t)
    \/ \E checksum \in BOOLEAN : ListProjectFilesBegin(t, checksum)
    \/ ListProjectFilesFiles(t)
    \/ ListProjectFilesClean(t)
    \/ ListProjectFilesMeta(t)
    \/ ListProjectFilesWrite(t)
    \/ \E v \in BOOLEAN : UpdateSettingsBegin(t, v)
    \/ UpdateSettingsWrite(t)
    \/ \E v \in BOOLEAN : UpdateMetaBegin(t, v)
    \/ UpdateMetaWrite(t)
    \/ SaveThumbnailBegin(t)
    \/ SaveThumbnailWrite(t)
    \/ Finish(t)

Next == Requests(1, FilesChanges)

Spec == Init /\ [][Next]_vars

(***************************************************************************)
(* SpecConc: two request goroutines, their steps interleaved.              *)
(***************************************************************************)
ConcChanges ==
    {NoInfo,
     [Updates |-> <<[Path |-> PA, Size |-> 1]>>, Removes |-> <<>>],
     [Updates |-> <<>>, Removes |-> <<PA>>]}

NextConc == \E t \in Threads : Requests(t, ConcChanges)

SpecConc == Init /\ [][NextConc]_vars

(***************************************************************************)
(* SpecQuota: two goroutines whose batches each fit the size limit and     *)
(* together exceed it.                                                     *)
(***************************************************************************)
QuotaChanges ==
    {[Updates |-> <<[Path |-> PA, Size |-> 1]>>, Removes |-> <<>>],
     [Updates |-> <<[Path |-> PD, Size |-> 1]>>, Removes |-> <<>>],
     [Updates |-> <<[Path |-> PD, Size |-> 2]>>, Removes |-> <<>>],
     [Updates |-> <<>>, Removes |-> <<PA>>]}

NextQuota == \E t \in Threads : Requests(t, QuotaChanges)

SpecQuota == Init /\ [][NextQuota]_vars

(***************************************************************************)
(* SpecList: listings by one goroutine while time passes, the cache sweeps *)
(* expired items and other programs write and remove files.                *)
(***************************************************************************)
NextList ==
    \/ \E v \in BOOLEAN : Create(1, v)
    \/ \E checksum \in BOOLEAN : ListProjectFilesBegin(1, checksum)
    \/ ListProjectFilesFiles(1)
    \/ ListProjectFilesClean(1)
    \/ ListProjectFilesMeta(1)
    \/ ListProjectFilesWrite(1)
    \/ Finish(1)
    \/ \E path \in ContentPaths, bytes \in Bytes : ExternalWrite(path, bytes)
    \/ \E path \in ContentPaths : ExternalRemove(path)
    \/ Tick
    \/ Evict

InitList ==
    /\ projectJson = NoProjectJson
    /\ disk = EmptyDisk
    /\ filesmap = NoFile
    /\ heap = [i \in InstIds |-> EmptyIndex]
    /\ indexCache = NoItem
    /\ clock = 0
    /\ th = [t \in Threads |-> Idle]
    /\ budget = MaxListOps
    /\ saved = NoSaved

SpecList == InitList /\ [][NextList]_vars

(***************************************************************************)
(* SpecClose: SpecList with the shutdown of the store.                     *)
(***************************************************************************)
NextClose ==
    \/ NextList
    \/ Close

SpecClose == InitList /\ [][NextClose]_vars

(***************************************************************************)
(* SpecGpkg: uploads and listings of one goroutine in a project with a     *)
(* GeoPackage file, which another program rewrites.                        *)
(***************************************************************************)
PG == <<"m", ".", "G", "p", "k", "g">>

GpkgPaths == {PA, PG}

GpkgChanges ==
    {[Updates |-> <<[Path |-> p, Size |-> 1]>>, Removes |-> <<>>] : p \in GpkgPaths}
    \cup {[Updates |-> <<>>, Removes |-> <<p>>] : p \in GpkgPaths}

GpkgUploads == {Upload(FALSE, p, "c1", FALSE) : p \in GpkgPaths}

MaxGpkgOps == 3

InitGpkg ==
    /\ projectJson = NoProjectJson
    /\ disk = [p \in GpkgPaths |-> NoEnt]
    /\ filesmap = NoFile
    /\ heap = [i \in InstIds |-> EmptyIndex]
    /\ indexCache = NoItem
    /\ clock = 0
    /\ th = [t \in Threads |-> Idle]
    /\ budget = MaxGpkgOps
    /\ saved = NoSaved

NextGpkg ==
    \/ \E v \in BOOLEAN : Create(1, v)
    \/ \E info \in GpkgChanges, hasNext \in BOOLEAN : UpdateFilesBegin(1, info, hasNext)
    \/ \E up \in GpkgUploads : UpdateFilesUpdate(1, up)
    \/ UpdateFilesRemove(1)
    \/ UpdateFilesPersist(1)
    \/ UpdateFilesMeta(1)
    \/ \E checksum \in BOOLEAN : ListProjectFilesBegin(1, checksum)
    \/ ListProjectFilesFiles(1)
    \/ ListProjectFilesClean(1)
    \/ ListProjectFilesMeta(1)
    \/ ListProjectFilesWrite(1)
    \/ Finish(1)
    \/ \E path \in GpkgPaths : ExternalWrite(path, "c1")
    \/ Tick

SpecGpkg == InitGpkg /\ [][NextGpkg]_vars

MaxDeleteOps == 3

InitDelete ==
    /\ projectJson = NoProjectJson
    /\ disk = EmptyDisk
    /\ filesmap = NoFile
    /\ heap = [i \in InstIds |-> EmptyIndex]
    /\ indexCache = NoItem
    /\ clock = 0
    /\ th = [t \in Threads |-> Idle]
    /\ budget = MaxDeleteOps
    /\ saved = NoSaved

(***************************************************************************)
(* SpecDelete: the requests of one goroutine on a project that is deleted  *)
(* and created again under its name.                                       *)
(***************************************************************************)
NextDelete ==
    \/ \E v \in BOOLEAN : Create(1, v)
    \/ Delete(1)
    \/ \E info \in ConcChanges, hasNext \in BOOLEAN : UpdateFilesBegin(1, info, hasNext)
    \/ \E up \in Uploads : UpdateFilesUpdate(1, up)
    \/ UpdateFilesRemove(1)
    \/ UpdateFilesPersist(1)
    \/ UpdateFilesMeta(1)
    \/ \E files \in {c.Removes : c \in ConcChanges} : RemoveFilesBegin(1, files)
    \/ RemoveFilesRemove(1)
    \/ RemoveFilesPersist(1)
    \/ RemoveFilesMeta(1)
    \/ \E checksum \in BOOLEAN : ListProjectFilesBegin(1, checksum)
    \/ ListProjectFilesFiles(1)
    \/ ListProjectFilesClean(1)
    \/ ListProjectFilesMeta(1)
    \/ ListProjectFilesWrite(1)
    \/ Finish(1)

SpecDelete == InitDelete /\ [][NextDelete]_vars

MaxTTLOps == 4

InitTTL ==
    /\ projectJson = NoProjectJson
    /\ disk = EmptyDisk
    /\ filesmap = NoFile
    /\ heap = [i \in InstIds |-> EmptyIndex]
    /\ indexCache = NoItem
    /\ clock = 0
    /\ th = [t \in Threads |-> Idle]
    /\ budget = MaxTTLOps
    /\ saved = NoSaved

(***************************************************************************)
(* SpecTTL: the requests of one goroutine that use the index, while time   *)
(* passes, the cache sweeps expired items and another program writes a     *)
(* file.                                                                   *)
(***************************************************************************)
NextTTL ==
    \/ \E v \in BOOLEAN : Create(1, v)
    \/ \E info \in ConcChanges, hasNext \in BOOLEAN : UpdateFilesBegin(1, info, hasNext)
    \/ \E up \in Uploads : UpdateFilesUpdate(1, up)
    \/ UpdateFilesRemove(1)
    \/ UpdateFilesPersist(1)
    \/ UpdateFilesMeta(1)
    \/ \E files \in {c.Removes : c \in ConcChanges} : RemoveFilesBegin(1, files)
    \/ RemoveFilesRemove(1)
    \/ RemoveFilesPersist(1)
    \/ RemoveFilesMeta(1)
    \/ \E checksum \in BOOLEAN : ListProjectFilesBegin(1, checksum)
    \/ ListProjectFilesFiles(1)
    \/ ListProjectFilesClean(1)
    \/ ListProjectFilesMeta(1)
    \/ ListProjectFilesWrite(1)
    \/ Finish(1)
    \/ ExternalWrite(PD, "c1")
    \/ Tick
    \/ Evict

SpecTTL == InitTTL /\ [][NextTTL]_vars

InitLoader ==
    /\ projectJson = NoProjectJson
    /\ disk = EmptyDisk
    /\ filesmap = NoFile
    /\ heap = [i \in InstIds |-> EmptyIndex]
    /\ indexCache = NoItem
    /\ clock = 0
    /\ th = [t \in Threads |-> Idle]
    /\ budget = MaxLoaderOps
    /\ saved = NoSaved

(***************************************************************************)
(* SpecLoader: requests of one goroutine on a project whose files and      *)
(* snapshot other programs write, damage and remove.                       *)
(***************************************************************************)
NextLoader ==
    \/ \E v \in BOOLEAN : Create(1, v)
    \/ \E info \in ConcChanges, hasNext \in BOOLEAN : UpdateFilesBegin(1, info, hasNext)
    \/ \E up \in Uploads : UpdateFilesUpdate(1, up)
    \/ UpdateFilesRemove(1)
    \/ UpdateFilesPersist(1)
    \/ UpdateFilesMeta(1)
    \/ \E files \in {c.Removes : c \in ConcChanges} : RemoveFilesBegin(1, files)
    \/ RemoveFilesRemove(1)
    \/ RemoveFilesPersist(1)
    \/ RemoveFilesMeta(1)
    \/ \E checksum \in BOOLEAN : ListProjectFilesBegin(1, checksum)
    \/ ListProjectFilesFiles(1)
    \/ ListProjectFilesClean(1)
    \/ ListProjectFilesMeta(1)
    \/ ListProjectFilesWrite(1)
    \/ Finish(1)
    \/ \E path \in {PA, PD}, bytes \in {"c1", Unreadable} : ExternalWrite(path, bytes)
    \/ \E path \in {PA, PD} : ExternalRemove(path)
    \/ ExternalCorrupt

SpecLoader == InitLoader /\ [][NextLoader]_vars

(***************************************************************************)
(* SpecDeleteDir: FilesIndex.DeleteDir applied to the indexes over a pool  *)
(* of paths.                                                               *)
(***************************************************************************)
Alphabet == {"a", Separator}

PathPool == UNION {[1..k -> Alphabet] : k \in 1..MaxPathLen}

DirPaths == SeqsUpTo(Alphabet, MaxDirLen)

Indexes ==
    {[p \in Range(s) |-> FileInfo(Sha1("c1"), ByteLen("c1"), 0)] :
        s \in SeqsUpTo(PathPool, MaxEntries)}

InitDeleteDir ==
    /\ \E index \in Indexes :
          /\ heap = [i \in InstIds |-> IF i = 1 THEN index ELSE EmptyIndex]
          /\ projectJson = [exists |-> TRUE,
                            info |-> ProjectInfo("staged", TotalSize(index), FALSE)]
    /\ disk = EmptyDisk
    /\ filesmap = NoFile
    /\ saved = NoSaved
    /\ indexCache = [has |-> TRUE, inst |-> 1, expiresAt |-> TTL]
    /\ clock = 0
    /\ th = [t \in Threads |-> Idle]
    /\ budget = MaxOps

(* index.DeleteDir(dirPath) on the cached index *)
FilesIndexDeleteDir(t, dirPath) ==
    /\ Begin(t)
    /\ indexCache.has
    /\ LET index == heap[indexCache.inst]
           cur == [th[t] EXCEPT !.op = "DeleteDir",
                                !.index = indexCache.inst,
                                !.pre = index,
                                !.info = [Updates |-> <<>>, Removes |-> <<dirPath>>]]
       IN  Step(t, Return(cur, "", 59, NilFiles),
                [heap EXCEPT ![indexCache.inst] = IndexDeleteDir(index, dirPath)],
                indexCache)
    /\ UNCHANGED <<projectJson, disk, filesmap, clock, saved>>

NextDeleteDir ==
    \/ \E dirPath \in DirPaths : FilesIndexDeleteDir(1, dirPath)
    \/ Finish(1)

SpecDeleteDir == InitDeleteDir /\ [][NextDeleteDir]_vars

(***************************************************************************)
(* The removal loops run to their end or to their first error.             *)
(***************************************************************************)
RECURSIVE UpdateFilesRemoves(_, _, _)
UpdateFilesRemoves(d, index, paths) ==
    IF paths = <<>> THEN [disk |-> d, index |-> index, err |-> ""]
    ELSE LET r == UpdateFilesRemoveOne(d, index, Head(paths)) IN
         IF r.err # "" THEN [disk |-> r.disk, index |-> r.index, err |-> r.err]
         ELSE UpdateFilesRemoves(r.disk, r.index, Tail(paths))

RECURSIVE RemoveFilesRemoves(_, _, _)
RemoveFilesRemoves(d, index, paths) ==
    IF paths = <<>> THEN [disk |-> d, index |-> index, err |-> ""]
    ELSE LET r == RemoveFilesRemoveOne(d, index, Head(paths)) IN
         IF r.err # "" THEN [disk |-> r.disk, index |-> r.index, err |-> r.err]
         ELSE RemoveFilesRemoves(r.disk, r.index, Tail(paths))

(***************************************************************************)
(* Vocabulary of the properties.                                           *)
(***************************************************************************)
Quiescent == \A t \in Threads : th[t].pc = "idle"

(* the index a request starting now obtains from filesIndex *)
CurrentIndex ==
    IF indexCache.has /\ ~IsExpired(indexCache, clock)
    THEN heap[indexCache.inst]
    ELSE LoaderIndexData(filesmap, disk)

State == projectJson.info.State

(* UpdateFiles of request t has returned from the update loop because the  *)
(* pulled path is not the declared one                                     *)
MismatchAbort(t) ==
    /\ th[t].pc = "done"
    /\ th[t].op = "UpdateFiles"
    /\ th[t].up # NoUpload
    /\ ~th[t].up.err
    /\ th[t].up.path # th[t].info.Updates[th[t].i].Path

Absent(d, path) == Lstat(d, path) \in {"ENOENT", "ENOTDIR"}

(***************************************************************************)
(* C1.  The snapshot file written by any persistence path (UpdateFiles,    *)
(* RemoveFiles, the eviction handler), read back by loadFilesIndex, is the *)
(* index that was persisted, without error.                                *)
(***************************************************************************)
C1_SnapshotRoundTrip ==
    saved.by # "" => loadFilesIndex(filesmap) = [index |-> saved.index, err |-> FALSE]

(***************************************************************************)
(* C2.  An UpdateFiles call with updates whose projected size exceeds      *)
(* MaxProjectSize returns ErrProjectSize; a call that returns              *)
(* ErrProjectSize has left the files, the index, the snapshot and          *)
(* project.json as they were; a call without updates never returns         *)
(* ErrProjectSize.                                                         *)
(***************************************************************************)
C2_QuotaRejection ==
    [][\A t \in Threads :
         (th[t].pc = "idle" /\ th'[t].pc # "idle" /\ th'[t].op = "UpdateFiles"
            /\ projectJson.exists) =>
         LET info == th'[t].info
             exceeds == calcNewSize(CurrentIndex, info) > MaxProjectSize
             rejected == th'[t].pc = "done" /\ th'[t].ret.err = "ErrProjectSize"
         IN  /\ (Len(info.Updates) > 0 /\ exceeds) => rejected
             /\ rejected =>
                  /\ th'[t].ret.files.nil
                  /\ disk' = disk
                  /\ filesmap' = filesmap
                  /\ projectJson' = projectJson
                  /\ heap'[indexCache'.inst] = CurrentIndex
             /\ Len(info.Updates) = 0 => ~rejected]_vars

C2_Witness ==
    \E t \in Threads :
        /\ th[t].pc = "done"
        /\ th[t].op = "UpdateFiles"
        /\ th[t].ret.err = "ErrProjectSize"
        /\ th[t].pre # EmptyIndex
        /\ \E p \in ContentPaths : disk[p].k = "file"

(***************************************************************************)
(* C3.  When the path pulled for the i-th update is not the declared path, *)
(* UpdateFiles returns a non-nil error.                                    *)
(***************************************************************************)
C3_MismatchIsError ==
    \A t \in Threads : MismatchAbort(t) => th[t].ret.err # ""

(***************************************************************************)
(* C4.  After an abort on a mismatched path at update i, the index differs *)
(* from its content before the batch only at the paths of updates 1..i-1.  *)
(***************************************************************************)
C4_IndexFrame ==
    \A t \in Threads :
        MismatchAbort(t) =>
            LET applied == {th[t].info.Updates[k].Path : k \in 1..(th[t].i - 1)}
                now == heap[th[t].index]
            IN  \A p \in ((DOMAIN now) \cup (DOMAIN th[t].pre)) \ applied :
                    IndexGet(now, p) = IndexGet(th[t].pre, p)

C4_Witness ==
    \E t \in Threads :
        /\ MismatchAbort(t)
        /\ th[t].i = 2
        /\ heap[th[t].index] # th[t].pre
        /\ Len(th[t].info.Removes) > 0
        /\ th[t].info.Removes[1] \in DOMAIN th[t].pre

(***************************************************************************)
(* C5.  A removal-only UpdateFiles whose targets are all absent on disk    *)
(* succeeds, and applying the same removes list a second time leaves the   *)
(* index as the first application left it.                                 *)
(***************************************************************************)
C5_RemovalIdempotent ==
    (Quiescent /\ projectJson.exists) =>
        \A removes \in SeqsUpTo(RemovePaths, MaxRemoves) :
            LET first == UpdateFilesRemoves(disk, CurrentIndex, removes)
                second == UpdateFilesRemoves(first.disk, first.index, removes)
            IN  /\ (\A i \in 1..Len(removes) : Absent(disk, removes[i])) => first.err = ""
                /\ first.err = "" => (second.err = "" /\ second.index = first.index)

(***************************************************************************)
(* C6.  RemoveFiles(paths) succeeds or fails as UpdateFiles with no        *)
(* updates and removes = paths does, and leaves the same index; a path     *)
(* absent on disk is no error.                                             *)
(***************************************************************************)
C6_RemoveFilesAsUpdateFiles ==
    (Quiescent /\ projectJson.exists) =>
        \A paths \in SeqsUpTo(RemovePaths, MaxRemoves) :
            LET rf == RemoveFilesRemoves(disk, CurrentIndex, paths)
                uf == UpdateFilesRemoves(disk, CurrentIndex, paths)
            IN  /\ (rf.err = "") = (uf.err = "")
                /\ rf.index = uf.index
                /\ (\A i \in 1..Len(paths) : Absent(disk, paths[i])) => rf.err = ""

(***************************************************************************)
(* C7.  The state goes from empty to staged only in a successful           *)
(* UpdateFiles with at least one update; UpdateFiles without updates,      *)
(* RemoveFiles and ListProjectFiles leave an empty project empty; once not *)
(* empty, the state is never empty again.                                  *)
(***************************************************************************)
C7_EmptyToStaged ==
    [][projectJson.exists =>
         LET byUpdate == \E t \in Threads :
                             /\ th[t].pc = "uf_meta"
                             /\ th'[t].pc = "done"
                             /\ Len(th[t].info.Updates) > 0
             byOther == \E t \in Threads :
                             /\ th[t].op \in {"UpdateFiles", "RemoveFiles", "ListProjectFiles"}
                             /\ th'[t] # th[t]
         IN  /\ (State = "empty" /\ State' = "staged") => byUpdate
             /\ (State = "empty" /\ byOther /\ ~byUpdate) => State' = "empty"
             /\ State # "empty" => State' # "empty"]_vars

(* the position of a lifecycle state in empty, staged, published *)
Rank(state) ==
    CASE state = "empty" -> 0
      [] state = "staged" -> 1
      [] state = "published" -> 2
      [] OTHER -> 0

(***************************************************************************)
(* C8.  In every interleaving of the requests of two goroutines the state  *)
(* persisted in project.json never moves backward along                    *)
(* empty, staged, published.                                               *)
(***************************************************************************)
C8_ForwardOnly ==
    [][(projectJson.exists /\ projectJson'.exists) =>
         Rank(projectJson'.info.State) >= Rank(State)]_vars

(* dirPath without one trailing separator; path lies under base *)
DirBase(dirPath) ==
    IF Len(dirPath) > 0 /\ dirPath[Len(dirPath)] = Separator
    THEN SubSeq(dirPath, 1, Len(dirPath) - 1)
    ELSE dirPath

Under(path, base) ==
    /\ Len(path) > Len(base)
    /\ \A i \in 1..Len(base) : path[i] = base[i]
    /\ path[Len(base) + 1] = Separator

DeleteDirDone(t) == th[t].pc = "done" /\ th[t].op = "DeleteDir"

(***************************************************************************)
(* C9.  DeleteDir(dirPath) removes exactly the entries whose path is       *)
(* dirPath, taken without one trailing separator, followed by the          *)
(* separator and by anything, and leaves every other entry, the siblings   *)
(* that share leading characters included, as it was.                      *)
(***************************************************************************)
C9_DeleteDirPrefix ==
    \A t \in Threads :
        DeleteDirDone(t) =>
            LET base == DirBase(th[t].info.Removes[1])
                pre == th[t].pre
                now == heap[th[t].index]
            IN  /\ DOMAIN now = {p \in DOMAIN pre : ~Under(p, base)}
                /\ \A p \in DOMAIN now : now[p] = pre[p]

C9_Witness ==
    \E t \in Threads :
        /\ DeleteDirDone(t)
        /\ LET dirPath == th[t].info.Removes[1]
               pre == th[t].pre
               now == heap[th[t].index]
           IN  /\ dirPath = DirBase(dirPath)
               /\ Len(dirPath) > 0
               /\ \E p \in DOMAIN pre : p \notin DOMAIN now
               /\ \E q \in DOMAIN now :
                      /\ Len(q) > Len(dirPath)
                      /\ SubSeq(q, 1, Len(dirPath)) = dirPath

(* ListProjectFiles(checksum = true) of request t is past its files loop;   *)
(* file p has an index entry with the scanned modification time             *)
Scanned(t) ==
    /\ th[t].op = "ListProjectFiles"
    /\ th[t].checksum
    /\ th[t].pc \in {"lpf_clean", "lpf_meta", "lpf_write", "done"}
    /\ th[t].index # 0

Unchanged(t, p) ==
    /\ p \in DOMAIN th[t].filesMap
    /\ p \in DOMAIN th[t].pre
    /\ th[t].pre[p].Mtime = th[t].filesMap[p].Mtime

Listed(t) == th[t].pc = "done" /\ th[t].ret.err = ""

(***************************************************************************)
(* C10.  In ListProjectFiles with checksum = true, a scanned file whose    *)
(* index entry has the scanned modification time is not handed to Checksum *)
(* and is returned with the hash of its entry; Checksum is called only for *)
(* files without an entry or with another modification time.               *)
(***************************************************************************)
C10_ChecksumCacheHit ==
    \A t \in Threads :
        Scanned(t) =>
            /\ \A p \in DOMAIN th[t].filesMap :
                  Unchanged(t, p) =>
                      /\ p \notin th[t].hashed
                      /\ Listed(t) => th[t].ret.files.list[p].Hash = th[t].pre[p].Hash
            /\ \A p \in th[t].hashed : ~Unchanged(t, p)

C10_Witness ==
    \E t \in Threads :
        /\ Scanned(t)
        /\ Listed(t)
        /\ \E p \in DOMAIN th[t].filesMap : Unchanged(t, p)
        /\ \E p \in th[t].hashed : p \in DOMAIN th[t].pre

(* ListProjectFiles of request t has returned its listing; the call found  *)
(* index entries of files that are gone                                    *)
ListReturned(t) ==
    /\ th[t].op = "ListProjectFiles"
    /\ th[t].pc = "done"
    /\ th[t].ret.err = ""

Purged(t) == \E p \in DOMAIN th[t].pre : p \notin DOMAIN th[t].filesMap

(***************************************************************************)
(* C11.  After a successful ListProjectFiles, with or without checksums,   *)
(* the index the call worked on holds no entry of a path the scan did not  *)
(* find, the listing holds exactly the scanned files with their scanned    *)
(* size and modification time, and when an entry was purged project.json   *)
(* holds the total size of the index.                                      *)
(***************************************************************************)
C11_TombstoneCleanup ==
    \A t \in Threads :
        ListReturned(t) =>
            LET index == heap[th[t].index]
                list == th[t].ret.files.list
            IN  /\ DOMAIN index \subseteq DOMAIN th[t].filesMap
                /\ ~th[t].ret.files.nil
                /\ DOMAIN list = DOMAIN th[t].filesMap
                /\ \A p \in DOMAIN list :
                      /\ list[p].Size = th[t].filesMap[p].Size
                      /\ list[p].Mtime = th[t].filesMap[p].Mtime
                /\ Purged(t) => projectJson.info.Size = TotalSize(index)

C11_Witness ==
    \E t \in Threads :
        /\ ListReturned(t)
        /\ Purged(t)
        /\ th[t].filesMap # EmptyIndex
        /\ projectJson.info.Size > 0

(* the next filesIndex call misses the cache; the snapshot file is absent   *)
(* or cannot be parsed                                                     *)
CacheMiss == ~(indexCache.has /\ ~IsExpired(indexCache, clock))

SnapshotUnusable == filesmap.t = "absent" \/ loadFilesIndex(filesmap).err

(***************************************************************************)
(* C12.  On a cache miss with the snapshot file absent or unparsable, the  *)
(* index the cache returns is the rebuild: exactly the files of the scan,  *)
(* each with its computed checksum, and so not empty when the project has  *)
(* content files.                                                          *)
(***************************************************************************)
C12_LoaderRebuild ==
    (projectJson.exists /\ CacheMiss /\ SnapshotUnusable) =>
        /\ CurrentIndex = RebuildIndex(disk)
        /\ createFilesMap(disk) # EmptyIndex => CurrentIndex # EmptyIndex

(* request t enters an operation that needs the index while populating the *)
(* cache fails                                                             *)
EntersWithLoaderFailure(t) ==
    /\ th[t].pc = "idle"
    /\ th'[t].pc # "idle"
    /\ th'[t].op \in {"UpdateFiles", "RemoveFiles", "ListProjectFiles"}
    /\ projectJson.exists
    /\ CacheMiss
    /\ LoaderFails(filesmap, disk)

(***************************************************************************)
(* C13.  When the loader fails, UpdateFiles, RemoveFiles and               *)
(* ListProjectFiles return an error to the caller: the call ends there,    *)
(* with an error value, without using the nil index.                       *)
(***************************************************************************)
C13_LoaderFailureSurfaced ==
    [][\A t \in Threads :
         EntersWithLoaderFailure(t) =>
             /\ th'[t].pc = "done"
             /\ th'[t].ret.err # ""
             /\ th'[t].ret.err # NilPointerPanic]_vars

(* the step of request t that has written the file of the declared update  *)
(* with a number of bytes other than the declared size                     *)
SizeMismatchStep(t) ==
    /\ th[t].pc = "uf_update"
    /\ th'[t] # th[t]
    /\ LET declared == th[t].info.Updates[th[t].i] IN
       /\ th'[t].up = NoUpload \/ (~th'[t].up.err /\ th'[t].up.path = declared.Path)
       /\ disk'[declared.Path].k = "file"
       /\ ByteLen(disk'[declared.Path].c) # declared.Size

(* UpdateFiles of request t has returned after that step *)
SizeAbort(t) ==
    /\ th[t].pc = "done"
    /\ th[t].op = "UpdateFiles"
    /\ th[t].up # NoUpload
    /\ ~th[t].up.err
    /\ ~th[t].up.readErr
    /\ LET declared == th[t].info.Updates[th[t].i] IN
       /\ th[t].up.path = declared.Path
       /\ disk[declared.Path] = FileEnt(th[t].up.bytes, disk[declared.Path].m)
       /\ ByteLen(th[t].up.bytes) # declared.Size

(***************************************************************************)
(* C14.  When the file written for the i-th update has not the declared    *)
(* size, UpdateFiles returns an error in that step, the step leaves the    *)
(* index as the updates before it made it, and neither the snapshot nor    *)
(* project.json is written; the call does nothing more.                    *)
(***************************************************************************)
C14_SizeMismatchAborts ==
    [][\A t \in Threads :
         SizeMismatchStep(t) =>
             /\ th'[t].pc = "done"
             /\ th'[t].ret.err # ""
             /\ th'[t].ret.files.nil
             /\ heap'[th[t].index] = heap[th[t].index]
             /\ filesmap' = filesmap
             /\ projectJson' = projectJson
             /\ saved' = saved]_vars

C14_Witness ==
    \E t \in Threads :
        /\ SizeAbort(t)
        /\ th[t].i = 2
        /\ heap[th[t].index] # th[t].pre
        /\ Len(th[t].info.Removes) > 0
        /\ projectJson.info.State = "empty"

(***************************************************************************)
(* C14 as stated: after the abort the index entry of the path of the i-th  *)
(* update is the entry from before the batch, or is absent as before.      *)
(***************************************************************************)
C14_EntryKeepsPreBatchValue ==
    \A t \in Threads :
        SizeAbort(t) =>
            LET path == th[t].info.Updates[th[t].i].Path
            IN  IndexGet(heap[th[t].index], path) = IndexGet(th[t].pre, path)

(* the cache item is evicted in this step *)
Evicted == indexCache.has /\ ~indexCache'.has

ObtainsIndex(t) == th[t].index = 0 /\ th'[t].index # 0

(***************************************************************************)
(* C16.  The expiry of a cache item is its creation time plus the TTL:     *)
(* no step of any operation changes the item while it is not expired, a    *)
(* call of filesIndex that finds a live item gets that item's index, and   *)
(* a call that finds no item or an expired one gets a new item holding     *)
(* what the loader reads then, expiring one TTL later.                     *)
(***************************************************************************)
C16_FixedTTL ==
    [][/\ (indexCache.has /\ ~IsExpired(indexCache, clock) /\ indexCache'.has)
           => indexCache' = indexCache
       /\ \A t \in Threads :
            ObtainsIndex(t) =>
                /\ indexCache'.has
                /\ th'[t].index = indexCache'.inst
                /\ IF CacheMiss
                   THEN /\ indexCache'.expiresAt = clock + TTL
                        /\ th'[t].pre = LoaderIndexData(filesmap, disk)
                   ELSE /\ indexCache' = indexCache
                        /\ th'[t].pre = heap[indexCache.inst]]_vars

(* a listing began at the last instant of an item's life, after a file     *)
(* was written at that instant: the item was made earlier and was hit      *)
C16_Witness ==
    /\ indexCache.has
    /\ clock = indexCache.expiresAt
    /\ th[1].pc = "lpf_files"
    /\ th[1].index = indexCache.inst
    /\ \E p \in DOMAIN th[1].filesMap : th[1].filesMap[p].Mtime = clock

(* request t, an UpdateFiles, writes project.json and returns nil *)
UpdateFilesCompletes(t) ==
    /\ th[t].op = "UpdateFiles"
    /\ th[t].pc = "uf_meta"
    /\ th'[t].pc = "done"
    /\ th'[t].ret.err = ""

(***************************************************************************)
(* C17.  The size limit is tested once, on the index as the call found it: *)
(* every UpdateFiles with updates that completes had a projected size      *)
(* within MaxProjectSize on its pre-batch index, whatever another call     *)
(* did to the index meanwhile, and the size it writes to project.json is   *)
(* the total of the shared index at its write, replacing what the other    *)
(* call wrote.  Two such calls can complete on one pre-batch index and     *)
(* leave a total above MaxProjectSize (C17_Witness).                       *)
(***************************************************************************)
C17_CheckThenAct ==
    [][\A t \in Threads :
         UpdateFilesCompletes(t) =>
            /\ Len(th[t].info.Updates) > 0 =>
                  calcNewSize(th[t].pre, th[t].info) <= MaxProjectSize
            /\ projectJson'.info.Size = TotalSize(heap[indexCache.inst])
            /\ projectJson'.info.State = UpdateFilesState(th[t].project.State, th[t].info)
            /\ th'[t].ret.files = Files(heap[indexCache.inst])]_vars

C17_Witness ==
    /\ \A t \in Threads :
          /\ th[t].pc = "done"
          /\ th[t].op = "UpdateFiles"
          /\ th[t].ret.err = ""
          /\ th[t].index = indexCache.inst
          /\ calcNewSize(th[t].pre, th[t].info) <= MaxProjectSize
    /\ th[1].pre = th[2].pre
    /\ TotalSize(heap[indexCache.inst]) > MaxProjectSize
    /\ projectJson.info.Size > MaxProjectSize

(* the next step of request t reads or ranges over index.Index without    *)
(* the lock: json encoding of the index at lines 815 and 858, the range    *)
(* of line 435                                                             *)
ReadsUnlocked(t) == th[t].pc \in {"uf_persist", "rf_persist", "lpf_clean"}

(* the next step of request t can write index.Index, under the write lock  *)
(* of Set, Delete or DeleteDir                                             *)
WritesIndex(t) ==
    \/ th[t].pc = "uf_update"
    \/ /\ th[t].pc = "uf_remove"
       /\ Lstat(disk, th[t].info.Removes[th[t].i]) # "ENOTDIR"
    \/ /\ th[t].pc = "rf_remove"
       /\ Lstat(disk, th[t].info.Removes[th[t].i]) \notin {"ENOENT", "ENOTDIR"}
    \/ /\ th[t].pc = "lpf_files"
       /\ th[t].checksum
       /\ \E p \in DOMAIN th[t].filesMap :
             ~CacheHit(IndexGet(heap[th[t].index], p).val,
                       IndexGet(heap[th[t].index], p).exists, th[t].filesMap[p])
    \/ /\ th[t].pc = "lpf_clean"
       /\ Tombstones(heap[th[t].index], th[t].filesMap) # {}

(***************************************************************************)
(* C18.  No state is reached in which one request is about to read or      *)
(* range over the map of an index without holding its lock while another   *)
(* request is about to write the map of the same index.                    *)
(***************************************************************************)
C18_IndexAccessLocked ==
    \A t, u \in Threads :
        (t # u /\ th[t].index # 0 /\ th[t].index = th[u].index) =>
            ~(ReadsUnlocked(t) /\ WritesIndex(u))

(* the sum of the sizes of a set of files *)
SizeSum(files) == SumSizes([p \in DOMAIN files |-> files[p].Size], DOMAIN files)

(* request t, an UpdateFiles or a RemoveFiles, has returned nil *)
ChangeSucceeded(t) ==
    /\ th[t].pc = "done"
    /\ th[t].op \in {"UpdateFiles", "RemoveFiles"}
    /\ th[t].ret.err = ""

(***************************************************************************)
(* C19.  With one request at a time, when UpdateFiles or RemoveFiles has   *)
(* returned without error the size in project.json is the sum of the sizes *)
(* of the entries of the index, and the sum of the sizes of the returned   *)
(* files.                                                                  *)
(***************************************************************************)
C19_SizeTracksIndex ==
    \A t \in Threads :
        ChangeSucceeded(t) =>
            /\ projectJson.exists
            /\ projectJson.info.Size = SizeSum(CurrentIndex)
            /\ projectJson.info.Size = SizeSum(th[t].ret.files.list)

(* UpdateFiles of request t has applied its whole batch and returned *)
BatchApplied(t) ==
    /\ th[t].pc = "done"
    /\ th[t].op = "UpdateFiles"
    /\ th[t].ret.err = ""
    /\ th[t].ret.line = 828

(* no remove of the batch names a path of its updates, or a directory      *)
(* above an index entry or above a path of its updates                     *)
RemovesExact(index, info) ==
    LET updated == {f.Path : f \in Range(info.Updates)} IN
    \A r \in Range(info.Removes) :
        /\ r \notin updated
        /\ \A p \in (DOMAIN index) \cup updated : ~Under(p, DirBase(r))

NewProject ==
    /\ projectJson = [exists |-> TRUE, info |-> ProjectInfo("empty", 0, FALSE)]
    /\ \A p \in ContentPaths : disk[p].k # "file"

(***************************************************************************)
(* C21.  The index that a request obtains for a project that is as Create  *)
(* left it, also when a project of that name was deleted before, has no    *)
(* entry.                                                                  *)
(***************************************************************************)
C21_NoEntryOfDeletedProject ==
    [][\A t \in Threads :
         (NewProject /\ ObtainsIndex(t)) => th'[t].pre = EmptyIndex]_vars

(* request t changes the map of the FilesIndex it holds in this step *)
MutatesIndex(t) ==
    /\ th[t].index # 0
    /\ th'[t].index = th[t].index
    /\ heap'[th[t].index] # heap[th[t].index]

(***************************************************************************)
(* C22.  Every step of a request that changes the map of its FilesIndex    *)
(* changes the instance that the cache holds for the project.              *)
(***************************************************************************)
C22_NoLostMutation ==
    [][\A t \in Threads :
         MutatesIndex(t) =>
            /\ indexCache'.has
            /\ indexCache'.inst = th[t].index]_vars

(* the tokens that Checksum returns for a GeoPackage file *)
DbhashTokens == {DBHash(b) : b \in Bytes}

(***************************************************************************)
(* C23.  In every state, an entry of the index has a token of the dbhash   *)
(* space exactly when its path has the extension .gpkg, in any case of     *)
(* letters.                                                                *)
(***************************************************************************)
C23_TokenByExtension ==
    \A p \in DOMAIN CurrentIndex :
        (CurrentIndex[p].Hash \in DbhashTokens) <=> (ToLower(Ext(p)) = GpkgExt)

(* ListProjectFiles(checksum = true) of request t has returned its listing *)
ChecksumListReturned(t) == ListReturned(t) /\ th[t].checksum

(***************************************************************************)
(* C24.  After a successful ListProjectFiles with checksum = true, the     *)
(* index the call worked on holds exactly the scanned paths, each with the *)
(* scanned modification time; an entry that had the scanned modification   *)
(* time before the call is left as it was, with its stored size and hash,  *)
(* and every other entry holds the scanned size and the hash returned.     *)
(***************************************************************************)
C24_ReconciledExceptHits ==
    \A t \in Threads :
        ChecksumListReturned(t) =>
            LET index == heap[th[t].index]
                list == th[t].ret.files.list
            IN  /\ DOMAIN index = DOMAIN th[t].filesMap
                /\ \A p \in DOMAIN index :
                      /\ index[p].Mtime = th[t].filesMap[p].Mtime
                      /\ index[p].Hash = list[p].Hash
                      /\ IF Unchanged(t, p)
                         THEN index[p] = th[t].pre[p]
                         ELSE index[p].Size = th[t].filesMap[p].Size

C24_Witness ==
    \E t \in Threads :
        /\ ChecksumListReturned(t)
        /\ \E p \in DOMAIN th[t].filesMap :
              /\ Unchanged(t, p)
              /\ th[t].pre[p].Size # th[t].filesMap[p].Size
        /\ \E p \in DOMAIN th[t].filesMap : ~Unchanged(t, p)

(***************************************************************************)
(* C24 as stated: after a successful ListProjectFiles with checksum = true *)
(* the index holds exactly the scanned paths, each with the scanned size   *)
(* and modification time, and its total size is the sum of the sizes of    *)
(* the listing.                                                            *)
(***************************************************************************)
C24_IndexAgreesWithScan ==
    \A t \in Threads :
        ChecksumListReturned(t) =>
            LET index == heap[th[t].index] IN
            /\ DOMAIN index = DOMAIN th[t].filesMap
            /\ \A p \in DOMAIN index :
                  /\ index[p].Size = th[t].filesMap[p].Size
                  /\ index[p].Mtime = th[t].filesMap[p].Mtime
            /\ SizeSum(index) = SizeSum(th[t].ret.files.list)

(* UpdateFiles, RemoveFiles or ListProjectFiles of request t returns in    *)
(* this step                                                               *)
Completes(t) ==
    /\ th[t].op \in {"UpdateFiles", "RemoveFiles", "ListProjectFiles"}
    /\ th[t].pc # "done"
    /\ th'[t].pc = "done"

(* the call of request t has returned an error after it changed the index *)
AbortedAfterChange(t) ==
    /\ th[t].pc = "done"
    /\ th[t].op \in {"UpdateFiles", "RemoveFiles"}
    /\ th[t].ret.err # ""
    /\ th[t].index # 0
    /\ heap[th[t].index] # th[t].pre

=============================================================================
